---- MODULE Spec2Model ----
(***************************************************************************)
(* A model of src/app.py: the streaming chat handler `respond` (a Python   *)
(* generator), the process-wide cancellation flag `stop_inference`, the    *)
(* action `cancel_inference`, and the Prometheus counters and summaries    *)
(* the handler updates.                                                    *)
(*                                                                         *)
(* Python strings are sequences of one-character strings.  A generator is  *)
(* a frame (its locals and the place it is suspended at); the steps of a   *)
(* frame are the stretches of code between two suspension points, split    *)
(* where the blocking backend call lets another thread run.                *)
(***************************************************************************)
EXTENDS Integers, Sequences, FiniteSets, TLC

VARIABLES
    stop_inference,    \* app.py:30   the global flag
    metrics,           \* app.py:10-23 value of every Counter
    TOKEN_COUNT,       \* app.py:16   Summary: [count, sum]
    REQUEST_DURATION,  \* app.py:13   Summary: number of observations
    frame,             \* per generator: the locals of respond and where it stands
    given,             \* per generator: the arguments the caller passed
    out,               \* per generator: the values yielded so far, in order
    obs                \* per generator: what the invocation and its backend did

vars == <<stop_inference, metrics, TOKEN_COUNT, REQUEST_DURATION, frame, given, out, obs>>

----------------------------------------------------------------------------
(* Bounds of the model. *)

\* Invocations of respond in one behaviour.
MaxRequests == 2

\* Fragments one backend stream delivers before it is exhausted or raises.
MaxFragments == 2

----------------------------------------------------------------------------
(* Strings. *)

CancelledText ==
    <<"I","n","f","e","r","e","n","c","e"," ","c","a","n","c","e","l","l","e","d",".">>

TimeoutPrefix ==
    <<"T","i","m","e","o","u","t"," ","E","r","r","o","r",":"," ">>

ErrorPrefix == <<"E","r","r","o","r",":"," ">>

API == <<"A","P","I">>

\* Python's `sub in s` on strings.
Contains(s, sub) ==
    \E i \in 0..(Len(s) - Len(sub)) : SubSeq(s, i + 1, i + Len(sub)) = sub

DigitChar(d) == <<"0","1","2","3","4","5","6","7","8","9">>[d + 1]

RECURSIVE Dec(_)
\* The decimal digits of a natural number.
Dec(n) == IF n < 10 THEN <<DigitChar(n)>> ELSE Dec(n \div 10) \o <<DigitChar(n % 10)>>

RECURSIVE Pow10(_)
Pow10(p) == IF p = 0 THEN 1 ELSE 10 * Pow10(p - 1)

RECURSIVE ZeroPad(_, _)
ZeroPad(s, p) == IF Len(s) >= p THEN s ELSE ZeroPad(<<"0">> \o s, p)

\* f"{x:.pf}" of the number n / 10^p.
Fixed(n, p) ==
    LET a == IF n < 0 THEN -n ELSE n
    IN  (IF n < 0 THEN <<"-">> ELSE <<>>)
        \o Dec(a \div Pow10(p)) \o <<".">> \o ZeroPad(Dec(a % Pow10(p)), p)

\* app.py:151, the text appended to the response; elapsed in hundredths of a
\* second, memory in millionths of a MB.
DiagnosticSuffix(elapsed, memory) ==
    <<"\n","\n","(","G","e","n","e","r","a","t","e","d"," ","i","n"," ">>
    \o Fixed(elapsed, 2)
    \o <<" ","s","e","c","o","n","d","s",","," ","M","e","m","o","r","y"," ","u","s","e","d",":"," ">>
    \o Fixed(memory, 6)
    \o <<" ","M","B",")">>

----------------------------------------------------------------------------
(* Inputs. *)

Gens == {"A", "B"}

\* The generators the one-request-at-a-time caller uses.
SeqGens == {"A"}

Turn(u, a) == <<u, a>>

\* A history item that is no pair: the empty tuple ().
EmptyTuple == <<>>

\* A history item with one field: (u,).
OneField(u) == <<u>>

NoneHistory == [none |-> TRUE, turns |-> <<>>]

ListHistory(h) == [none |-> FALSE, turns |-> h]

HistoryArgs ==
    { NoneHistory,
      ListHistory(<<>>),
      ListHistory(<<Turn(<<"h","i">>, <<"y","o">>)>>),
      ListHistory(<<Turn(<<>>, <<"y","o">>), Turn(<<"h","i">>, <<>>)>>),
      ListHistory(<<EmptyTuple>>),
      ListHistory(<<OneField(<<"h","i">>)>>),
      ListHistory(<<Turn(<<"h","i">>, <<"y","o">>), EmptyTuple>>) }

Messages == { <<"m">> }

SystemMessages == { <<"s">> }

Fragments == { <<"a">>, <<"b","c">> }

ErrorTypes == {"TimeoutError", "Exception"}

ErrorTexts == { <<"x","A","P","I">>, <<"A","P","x","I">> }

Errors == [type : ErrorTypes, text : ErrorTexts]

\* Readings of the clock and of the resident memory at app.py:144-148.
Diagnostics == { [elapsed |-> 0, memory |-> 0], [elapsed |-> 150, memory |-> -500000] }

----------------------------------------------------------------------------
(* Metrics. *)

CounterNames ==
    { "REQUEST_COUNTER", "SUCCESSFUL_REQUESTS", "FAILED_REQUESTS",
      "LOCAL_MODEL_USAGE", "API_MODEL_USAGE",
      "TIMEOUT_ERRORS", "API_ERRORS", "UNKNOWN_ERRORS" }

MetricNames == CounterNames \cup {"TOKEN_COUNT", "REQUEST_DURATION"}

\* Counter.inc() on each counter of the sequence, in order.
RECURSIVE IncAll(_, _)
IncAll(m, names) ==
    IF names = <<>> THEN m
    ELSE IncAll([m EXCEPT ![Head(names)] = @ + 1], Tail(names))

\* Summary.observe(v).
Observe(s, v) == [count |-> s.count + 1, sum |-> s.sum + v]

----------------------------------------------------------------------------
(* The pieces of respond. *)

\* Faulty variant: the flag is left as the previous request had it.
ResetFlagStale(flag) == flag

\* app.py:43
ResetFlag(flag) == FALSE

\* app.py:53-54
NormalizeHistory(history) == IF history.none THEN <<>> ELSE history.turns

\* Faulty variant: the usage is booked on the remote counter on both paths.
BackendCounterRemoteOnly(use_local) == "API_MODEL_USAGE"

\* app.py:56-58, 88-90
BackendCounter(use_local) ==
    IF use_local THEN "LOCAL_MODEL_USAGE" ELSE "API_MODEL_USAGE"

\* app.py:63-65, 95-97   val[0] or val[1] raises IndexError on an item that has
\* fewer than two fields
BuildRaises(history) == \E i \in 1..Len(history) : Len(history[i]) < 2

\* str(e) of that IndexError.
IndexErrorText ==
    <<"t","u","p","l","e"," ","i","n","d","e","x"," ","o","u","t"," ","o","f"," ",
      "r","a","n","g","e">>

IndexError == [type |-> "IndexError", text |-> IndexErrorText]

Entry(role, content) == [role |-> role, content |-> content]

RECURSIVE EntriesBeforeRaise(_)
\* app.py:62-66, 94-98   the entries appended for the items in front of the
\* first item that has fewer than two fields, and for that item's first field
\* when it has one
EntriesBeforeRaise(history) ==
    IF history = <<>> THEN <<>>
    ELSE LET val == Head(history)
         IN  IF Len(val) = 0 THEN <<>>
             ELSE (IF val[1] # <<>> THEN <<Entry("user", val[1])>> ELSE <<>>)
                  \o (IF Len(val) = 1 THEN <<>>
                      ELSE (IF val[2] # <<>> THEN <<Entry("assistant", val[2])>> ELSE <<>>)
                           \o EntriesBeforeRaise(Tail(history)))

RECURSIVE LocalHistoryEntries(_)
\* app.py:62-66
LocalHistoryEntries(history) ==
    IF history = <<>> THEN <<>>
    ELSE LET val == Head(history)
         IN  (IF val[1] # <<>> THEN <<Entry("user", val[1])>> ELSE <<>>)
             \o (IF val[2] # <<>> THEN <<Entry("assistant", val[2])>> ELSE <<>>)
             \o LocalHistoryEntries(Tail(history))

RECURSIVE LocalHistoryEntriesUserTest(_)
\* Faulty variant: the assistant entry is kept iff the user field is non-empty.
LocalHistoryEntriesUserTest(history) ==
    IF history = <<>> THEN <<>>
    ELSE LET val == Head(history)
         IN  (IF val[1] # <<>> THEN <<Entry("user", val[1])>> ELSE <<>>)
             \o (IF val[1] # <<>> THEN <<Entry("assistant", val[2])>> ELSE <<>>)
             \o LocalHistoryEntriesUserTest(Tail(history))

LocalMessagesUserTest(system_message, history, message) ==
    <<Entry("system", system_message)>>
    \o LocalHistoryEntriesUserTest(history)
    \o <<Entry("user", message)>>

\* app.py:61-67
LocalMessages(system_message, history, message) ==
    <<Entry("system", system_message)>>
    \o LocalHistoryEntries(history)
    \o <<Entry("user", message)>>

RECURSIVE RemoteHistoryEntries(_)
\* app.py:94-98
RemoteHistoryEntries(history) ==
    IF history = <<>> THEN <<>>
    ELSE LET val == Head(history)
         IN  (IF val[1] # <<>> THEN <<Entry("user", val[1])>> ELSE <<>>)
             \o (IF val[2] # <<>> THEN <<Entry("assistant", val[2])>> ELSE <<>>)
             \o RemoteHistoryEntries(Tail(history))

\* app.py:93-99
RemoteMessages(system_message, history, message) ==
    <<Entry("system", system_message)>>
    \o RemoteHistoryEntries(history)
    \o <<Entry("user", message)>>

\* What one step of the local pipeline exposes (read at app.py:82): the
\* conversation with the generated assistant entry last.
LocalOutput(messages, f) ==
    [generated_text |-> Append(messages, Entry("assistant", f))]

\* What one chunk of the remote stream exposes (read at app.py:118).
RemoteChunk(f) == [choices |-> <<[delta |-> [content |-> f]]>>]

\* app.py:82   output['generated_text'][-1]['content']
LocalToken(output) ==
    output.generated_text[Len(output.generated_text)].content

\* app.py:118  message_chunk.choices[0].delta.content
RemoteToken(message_chunk) == message_chunk.choices[1].delta.content

\* Faulty variant: the loop never looks at the flag.
StopRequestedIgnored(flag) == FALSE

\* app.py:78, 110, 114   `if stop_inference:` in the loop body
StopRequested(flag) == flag

\* app.py:83, 119
Accumulate(response, token) == response \o token

\* Faulty variant: the count is not advanced.
NextTokenCountStuck(token_count) == token_count

\* app.py:84, 120
NextTokenCount(token_count) == token_count + 1

\* Faulty variant: the loop runs its body again on the item it already has.
AfterPartialYieldSameItem == "body"

\* app.py:85, 121   resumed after the partial value, the for statement asks the
\* stream for its next item
AfterPartialYield == "for"

\* app.py:80, 85, 112, 121, 129, 139, 153   history + [(message, response)]
YieldValue(history, message, response) == history \o <<Turn(message, response)>>

\* Faulty variant: the turn is appended to the list in place (history.append).
HistoryAfterYieldInPlace(history, message, response) ==
    Append(history, Turn(message, response))

\* The list bound to `history` after history + [...] was evaluated: list
\* concatenation builds a new list and leaves its operands as they were.
HistoryAfterYield(history, message, response) == history

\* Faulty variant: the text of the error is looked at before its type.
ErrorCountersTextFirst(e) ==
    IF Contains(e.text, API)
    THEN <<"FAILED_REQUESTS", "API_ERRORS">>
    ELSE IF e.type = "TimeoutError"
         THEN <<"TIMEOUT_ERRORS", "FAILED_REQUESTS">>
         ELSE <<"FAILED_REQUESTS", "UNKNOWN_ERRORS">>

\* Faulty variant: the failure is counted on entry to the clause and again
\* after the classification.
ErrorCountersFailedTwice(e) ==
    IF e.type = "TimeoutError"
    THEN <<"TIMEOUT_ERRORS", "FAILED_REQUESTS", "FAILED_REQUESTS">>
    ELSE <<"FAILED_REQUESTS",
           IF Contains(e.text, API) THEN "API_ERRORS" ELSE "UNKNOWN_ERRORS",
           "FAILED_REQUESTS">>

\* app.py:126-137   the counters the except clauses increment, in order
ErrorCounters(e) ==
    IF e.type = "TimeoutError"
    THEN <<"TIMEOUT_ERRORS", "FAILED_REQUESTS">>
    ELSE <<"FAILED_REQUESTS",
           IF Contains(e.text, API) THEN "API_ERRORS" ELSE "UNKNOWN_ERRORS">>

\* Faulty variant: the generic clause's text is yielded for a timeout too.
ErrorResponseGeneric(e) == ErrorPrefix \o e.text

\* app.py:129, 139   the response the except clauses yield
ErrorResponse(e) ==
    IF e.type = "TimeoutError" THEN TimeoutPrefix \o e.text ELSE ErrorPrefix \o e.text

\* app.py:86, 122   the values TOKEN_COUNT.observe is called with once the loop
\* was left by exhaustion or by break
TokenObservations(token_count) == <<token_count>>

\* app.py:124   the counters incremented after the loop (remote path only)
CompletionCounters(use_local) ==
    IF use_local THEN <<>> ELSE <<"SUCCESSFUL_REQUESTS">>

\* app.py:45, 140-141   request_timer is the Timer that REQUEST_DURATION.time()
\* returns, a context manager and decorator that has no attribute
\* observe_duration: the attribute lookup raises AttributeError before anything
\* is observed, so REQUEST_DURATION keeps the number of observations it had.
ObserveDuration(n) == n

\* The exception that app.py:141 raises; nothing catches it, it leaves the
\* generator.
AttributeError == "AttributeError"

----------------------------------------------------------------------------
(* State of one generator. *)

NoItem == <<>>

IdleFrame ==
    [ pc             |-> "idle",
      message        |-> <<>>,
      history        |-> <<>>,
      system_message |-> <<>>,
      use_local      |-> FALSE,
      messages       |-> <<>>,
      response       |-> <<>>,
      token_count    |-> 0,
      cur            |-> NoItem,
      bound          |-> FALSE ]

NoArgs ==
    [ message |-> <<>>, history |-> NoneHistory, system_message |-> <<>>,
      use_local |-> FALSE ]

\* Nothing done yet: no metric touched, no fragment requested, stream not open.
\*   calls      how often the invocation called inc()/observe() on each metric
\*   tokens     the values it passed to TOKEN_COUNT.observe
\*   produced   the fragments its backend stream delivered
\*   stream     "none", "open", "exhausted" or "raised"
\*   raised     the error its backend raised, if any
\*   reads      per execution of the loop body: the flag as read, and whether
\*              cancel_inference had run since this invocation reset the flag
\*   cancelSeen whether cancel_inference ran since this invocation reset the flag
\*   rechecks   per execution of app.py:114: the flag as read there
\*   escaped    the exception that left the generator, if any
FreshObs ==
    [ calls      |-> [n \in MetricNames |-> 0],
      tokens     |-> <<>>,
      produced   |-> <<>>,
      stream     |-> "none",
      raised     |-> <<>>,
      reads      |-> <<>>,
      cancelSeen |-> FALSE,
      rechecks   |-> <<>>,
      escaped    |-> <<>> ]

\* The invocation's own record of the metric calls it makes.
RECURSIVE Called(_, _)
Called(o, names) ==
    IF names = <<>> THEN o
    ELSE Called([o EXCEPT !.calls[Head(names)] = @ + 1], Tail(names))

\* Started and not yet ended (every invocation ends by the exception of
\* app.py:141).
Live(g) == frame[g].pc \notin {"idle", "raised"}

Init ==
    /\ stop_inference = FALSE
    /\ metrics = [n \in CounterNames |-> 0]
    /\ TOKEN_COUNT = [count |-> 0, sum |-> 0]
    /\ REQUEST_DURATION = 0
    /\ frame = [g \in Gens |-> IdleFrame]
    /\ given = [g \in Gens |-> NoArgs]
    /\ out = [g \in Gens |-> <<>>]
    /\ obs = [g \in Gens |-> FreshObs]

----------------------------------------------------------------------------
(* Steps. *)

\* app.py:42-69 and 88-102: the first next() on the generator, up to the point
\* where the backend is called; when building the message list raises, up to
\* the yield of the except clause (app.py:131-139), `response` still unbound.
respond_start(g, message, history, system_message, use_local) ==
    /\ ~Live(g)
    /\ metrics["REQUEST_COUNTER"] < MaxRequests
    /\ stop_inference' = ResetFlag(stop_inference)
    /\ given' = [given EXCEPT ![g] =
            [ message |-> message, history |-> history,
              system_message |-> system_message, use_local |-> use_local ]]
    /\ LET h     == NormalizeHistory(history)
           first == <<"REQUEST_COUNTER", BackendCounter(use_local)>>
       IN  IF BuildRaises(h)
           THEN LET incs == first \o ErrorCounters(IndexError)
                IN  /\ metrics' = IncAll(metrics, incs)
                    /\ frame' = [frame EXCEPT ![g] =
                            [ IdleFrame EXCEPT
                                !.pc = "failed",
                                !.message = message,
                                !.history = HistoryAfterYield(h, message, ErrorResponse(IndexError)),
                                !.system_message = system_message,
                                !.use_local = use_local,
                                !.messages = <<Entry("system", system_message)>>
                                             \o EntriesBeforeRaise(h) ]]
                    /\ out' = [out EXCEPT ![g] =
                            <<YieldValue(h, message, ErrorResponse(IndexError))>>]
                    /\ obs' = [obs EXCEPT ![g] =
                            [ Called(FreshObs, incs) EXCEPT !.raised = <<IndexError>> ]]
           ELSE /\ metrics' = IncAll(metrics, first)
                /\ frame' = [frame EXCEPT ![g] =
                        [ pc             |-> "for",
                          message        |-> message,
                          history        |-> h,
                          system_message |-> system_message,
                          use_local      |-> use_local,
                          messages       |-> IF use_local
                                             THEN LocalMessages(system_message, h, message)
                                             ELSE RemoteMessages(system_message, h, message),
                          response       |-> <<>>,
                          token_count    |-> 0,
                          cur            |-> NoItem,
                          bound          |-> TRUE ]]
                /\ out' = [out EXCEPT ![g] = <<>>]
                /\ obs' = [obs EXCEPT ![g] =
                        [ Called(FreshObs, first) EXCEPT !.stream = "open" ]]
    /\ UNCHANGED <<TOKEN_COUNT, REQUEST_DURATION>>

\* One value yielded at app.py:80, 85, 112, 121, 129, 139 or 153.
Yield(g, response) ==
    /\ out' = [out EXCEPT ![g] =
            Append(@, YieldValue(frame[g].history, frame[g].message, response))]

\* app.py:71, 103: the backend delivers its next item.
stream_item(g, f) ==
    /\ frame[g].pc = "for"
    /\ Len(obs[g].produced) < MaxFragments
    /\ frame' = [frame EXCEPT ![g].pc = "body",
                              ![g].cur = IF frame[g].use_local
                                         THEN LocalOutput(frame[g].messages, f)
                                         ELSE RemoteChunk(f)]
    /\ obs' = [obs EXCEPT ![g].produced = Append(@, f)]
    /\ UNCHANGED <<stop_inference, metrics, TOKEN_COUNT, REQUEST_DURATION, given, out>>

\* app.py:79-81, 111-113: the cancelled value is yielded.
yield_cancelled(g) ==
    /\ frame' = [frame EXCEPT ![g].pc = "cancelled",
                              ![g].response = CancelledText,
                              ![g].history =
                                  HistoryAfterYield(@, frame[g].message, CancelledText)]
    /\ Yield(g, CancelledText)

\* app.py:82-85, 118-121: the fragment is appended and the partial value yielded.
append_fragment(g) ==
    LET token == IF frame[g].use_local
                 THEN LocalToken(frame[g].cur)
                 ELSE RemoteToken(frame[g].cur)
        response == Accumulate(frame[g].response, token)
    IN  /\ frame' = [frame EXCEPT ![g].pc = AfterPartialYield,
                                  ![g].response = response,
                                  ![g].token_count = NextTokenCount(@),
                                  ![g].history =
                                      HistoryAfterYield(@, frame[g].message, response)]
        /\ Yield(g, response)

\* app.py:86/122-124, 140-141: the code after the loop, with `response` as the
\* loop left it and o the invocation's record so far: the token count is
\* recorded, on the remote path a success is counted, and the finally clause
\* raises AttributeError, so app.py:143-153 is not reached.
after_loop(g, response, o) ==
    LET toks  == TokenObservations(frame[g].token_count)
        incs  == CompletionCounters(frame[g].use_local)
    IN  /\ TOKEN_COUNT' = IF toks = <<>> THEN TOKEN_COUNT
                          ELSE Observe(TOKEN_COUNT, toks[1])
        /\ metrics' = IncAll(metrics, incs)
        /\ REQUEST_DURATION' = ObserveDuration(REQUEST_DURATION)
        /\ obs' = [obs EXCEPT ![g] =
                [ Called(o, incs) EXCEPT
                    !.tokens = @ \o toks,
                    !.calls["TOKEN_COUNT"] = @ + Len(toks),
                    !.calls["REQUEST_DURATION"] =
                        @ + (REQUEST_DURATION' - REQUEST_DURATION),
                    !.escaped = <<AttributeError>> ]]
        /\ frame' = [frame EXCEPT ![g].pc = "raised",
                                  ![g].response = response]
        /\ UNCHANGED out

\* app.py:78-85 (the whole body of the local loop), 110-113 (the first test of
\* the flag in the remote loop) for the item just delivered.
loop_body(g) ==
    /\ frame[g].pc = "body"
    /\ IF StopRequested(stop_inference)
       THEN yield_cancelled(g)
       ELSE IF frame[g].use_local
            THEN append_fragment(g)
            ELSE /\ frame' = [frame EXCEPT ![g].pc = "recheck"]
                 /\ UNCHANGED out
    /\ obs' = [obs EXCEPT ![g].reads =
                   Append(@, [flag |-> stop_inference, cancelSeen |-> obs[g].cancelSeen])]
    /\ UNCHANGED <<stop_inference, metrics, TOKEN_COUNT, REQUEST_DURATION, given>>

\* app.py:114-121: the remote loop reads the flag a second time; another thread
\* may have run cancel_inference since the read at app.py:110.  When the flag
\* is set now, the loop is left by break with response = "Inference
\* cancelled." and the code after the loop runs (app.py:122-141).
loop_body_recheck(g) ==
    /\ frame[g].pc = "recheck"
    /\ IF StopRequested(stop_inference)
       THEN after_loop(g, CancelledText,
                       [obs[g] EXCEPT !.rechecks = Append(@, stop_inference)])
       ELSE /\ append_fragment(g)
            /\ obs' = [obs EXCEPT ![g].rechecks = Append(@, stop_inference)]
            /\ UNCHANGED <<metrics, TOKEN_COUNT, REQUEST_DURATION>>
    /\ UNCHANGED <<stop_inference, given>>

\* app.py:86/122-124, 140-141: the stream is exhausted and the code after the
\* loop runs.
stream_exhausted(g) ==
    /\ frame[g].pc = "for"
    /\ after_loop(g, frame[g].response, [obs[g] EXCEPT !.stream = "exhausted"])
    /\ UNCHANGED <<stop_inference, given>>

\* app.py:126-139: the backend raises (on dispatch or on a fragment); the
\* matching except clause counts the error and yields the error response.
stream_raises(g, e) ==
    /\ frame[g].pc = "for"
    /\ LET incs == ErrorCounters(e)
           text == ErrorResponse(e)
       IN  /\ metrics' = IncAll(metrics, incs)
           /\ obs' = [obs EXCEPT ![g] =
                   [ Called(@, incs) EXCEPT !.stream = "raised",
                                            !.raised = Append(@, e) ]]
           /\ frame' = [frame EXCEPT ![g].pc = "failed",
                                     ![g].history =
                                         HistoryAfterYield(@, frame[g].message, text)]
           /\ Yield(g, text)
    /\ UNCHANGED <<stop_inference, TOKEN_COUNT, REQUEST_DURATION, given>>

\* app.py:81/113, 140-141: resumed after the cancelled value: return, through
\* the finally clause; the exception raised there replaces the return.
resume_cancelled(g) ==
    /\ frame[g].pc = "cancelled"
    /\ REQUEST_DURATION' = ObserveDuration(REQUEST_DURATION)
    /\ obs' = [obs EXCEPT ![g].calls["REQUEST_DURATION"] =
                              @ + (REQUEST_DURATION' - REQUEST_DURATION),
                          ![g].escaped = <<AttributeError>>]
    /\ frame' = [frame EXCEPT ![g].pc = "raised"]
    /\ UNCHANGED <<stop_inference, metrics, TOKEN_COUNT, given, out>>

\* app.py:140-141: resumed after the error value: the except clause ends
\* without return and the finally clause raises AttributeError, so the code
\* after the try statement (app.py:143-153) is not reached.
resume_failed(g) ==
    /\ frame[g].pc = "failed"
    /\ REQUEST_DURATION' = ObserveDuration(REQUEST_DURATION)
    /\ obs' = [obs EXCEPT ![g].calls["REQUEST_DURATION"] =
                              @ + (REQUEST_DURATION' - REQUEST_DURATION),
                          ![g].escaped = <<AttributeError>>]
    /\ frame' = [frame EXCEPT ![g].pc = "raised"]
    /\ UNCHANGED <<stop_inference, metrics, TOKEN_COUNT, given, out>>

\* app.py:155-157
cancel_inference ==
    /\ stop_inference' = TRUE
    /\ obs' = [g \in Gens |-> [obs[g] EXCEPT !.cancelSeen = Live(g) \/ @]]
    /\ UNCHANGED <<metrics, TOKEN_COUNT, REQUEST_DURATION, frame, given, out>>

\* The caller runs one request at a time.
Start ==
    \E g \in SeqGens, m \in Messages, h \in HistoryArgs, s \in SystemMessages,
       l \in BOOLEAN :
        /\ \A o \in Gens : ~Live(o)
        /\ respond_start(g, m, h, s, l)

Item == \E g \in Gens, f \in Fragments : stream_item(g, f)

Body == \E g \in Gens : loop_body(g)

Recheck == \E g \in Gens : loop_body_recheck(g)

Exhausted == \E g \in Gens : stream_exhausted(g)

Raises == \E g \in Gens, e \in Errors : stream_raises(g, e)

ResumeCancelled == \E g \in Gens : resume_cancelled(g)

ResumeFailed == \E g \in Gens : resume_failed(g)

Cancel == cancel_inference

Next ==
    \/ Start
    \/ Item
    \/ Body
    \/ Recheck
    \/ Exhausted
    \/ Raises
    \/ ResumeCancelled
    \/ ResumeFailed
    \/ Cancel

Spec == Init /\ [][Next]_vars

\* Two requests may be in progress at once (one per event listener); the
\* inputs are kept to one history, one fragment and one error.
ConcHistoryArgs == { ListHistory(<<>>) }

ConcFragments == { <<"a">> }

ConcErrors == { [type |-> "Exception", text |-> <<"x","A","P","I">>] }

StartAny ==
    \E g \in Gens, m \in Messages, h \in ConcHistoryArgs, s \in SystemMessages,
       l \in BOOLEAN :
        respond_start(g, m, h, s, l)

ItemConc == \E g \in Gens, f \in ConcFragments : stream_item(g, f)

RaisesConc == \E g \in Gens, e \in ConcErrors : stream_raises(g, e)

NextConc ==
    \/ StartAny
    \/ ItemConc
    \/ Body
    \/ Recheck
    \/ Exhausted
    \/ RaisesConc
    \/ ResumeCancelled
    \/ ResumeFailed
    \/ Cancel

SpecConc == Init /\ [][NextConc]_vars

\* One request at a time, over one well-formed and one malformed history, one
\* fragment value and both error types.
LiveHistoryArgs == { ListHistory(<<>>), ListHistory(<<EmptyTuple>>) }

LiveErrors == [type : ErrorTypes, text : { <<"x","A","P","I">> }]

StartLive ==
    \E g \in SeqGens, m \in Messages, h \in LiveHistoryArgs, s \in SystemMessages,
       l \in BOOLEAN :
        /\ \A o \in Gens : ~Live(o)
        /\ respond_start(g, m, h, s, l)

RaisesLive == \E g \in Gens, e \in LiveErrors : stream_raises(g, e)

NextLive ==
    \/ StartLive
    \/ ItemConc
    \/ Body
    \/ Recheck
    \/ Exhausted
    \/ RaisesLive
    \/ ResumeCancelled
    \/ ResumeFailed
    \/ Cancel

\* Every step of generator g: its backend and its consumer.
Step(g) ==
    \/ \E f \in ConcFragments : stream_item(g, f)
    \/ loop_body(g)
    \/ loop_body_recheck(g)
    \/ stream_exhausted(g)
    \/ \E e \in LiveErrors : stream_raises(g, e)
    \/ resume_cancelled(g)
    \/ resume_failed(g)

\* The caller keeps consuming each generator it started, and the backend
\* answers every request for the next item.
SpecLive == Init /\ [][NextLive]_vars /\ \A g \in Gens : WF_vars(Step(g))

----------------------------------------------------------------------------
(* Properties. *)

\* The history the caller passed, None read as the empty list.
Hist(g) == IF given[g].history.none THEN <<>> ELSE given[g].history.turns

Started(g) == frame[g].pc # "idle"

\* The response field of the last Turn of a yielded value.
LastResponse(v) == v[Len(v)][2]

YieldedCancelled(g) ==
    \E i \in 1..Len(out[g]) : LastResponse(out[g][i]) = CancelledText

\* An exception was raised inside the try block of the invocation.
Failed(g) == obs[g].raised # <<>>

RECURSIVE Flatten(_)
\* The concatenation of a sequence of strings.
Flatten(fs) == IF fs = <<>> THEN <<>> ELSE Head(fs) \o Flatten(Tail(fs))

\* Python's r.startswith(p).
StartsWith(r, p) == Len(r) >= Len(p) /\ SubSeq(r, 1, Len(p)) = p

\* The invocation has ended.
Ended(g) == frame[g].pc = "raised"

\* C1: when cancel_inference ran after the invocation's reset and before its
\* first fragment was processed, the invocation yields exactly one value, the
\* history with the Turn (message, "Inference cancelled.") appended, and ends
\* (by return, or by the exception of app.py:141) without yielding an annotated
\* value.
C1_CancelBeforeFirstFragment ==
    \A g \in Gens :
        (Len(obs[g].reads) >= 1 /\ obs[g].reads[1].cancelSeen) =>
            /\ out[g] = << Hist(g) \o <<Turn(given[g].message, CancelledText)>> >>
            /\ Len(out[g][1]) = Len(Hist(g)) + 1
            /\ frame[g].pc = "cancelled" \/ Ended(g)

C1_Witness ==
    \E g \in Gens :
        /\ Ended(g)
        /\ obs[g].reads # <<>> /\ obs[g].reads[1].cancelSeen
        /\ given[g].use_local
        /\ Len(Hist(g)) = 1

\* The error string the claim describes: "Timeout Error: " for a timeout,
\* "Error: " otherwise, followed by the text of the error.
ErrorString(e) ==
    (IF e.type = "TimeoutError" THEN <<"T","i","m","e","o","u","t"," ">> ELSE <<>>)
    \o <<"E","r","r","o","r",":"," ">> \o e.text

\* C2: once an error was raised in the try block (while the message list was
\* built, on dispatch or in the middle of the stream), the invocation yields
\* the history with (message, error string) after the partial values it had
\* yielded, and that is the last value it yields: nothing with the diagnostic
\* suffix follows, no further fragment is requested, and it then ends.
C2_ErrorResponseIsLast ==
    \A g \in Gens :
        Failed(g) =>
            /\ Len(out[g]) = frame[g].token_count + 1
            /\ out[g][Len(out[g])] =
                   Hist(g) \o <<Turn(given[g].message, ErrorString(obs[g].raised[1]))>>
            /\ \A k \in 1..(Len(out[g]) - 1) :
                   LastResponse(out[g][k]) = Flatten(SubSeq(obs[g].produced, 1, k))
            /\ Len(obs[g].produced) = frame[g].token_count
            /\ frame[g].pc = "failed" \/ Ended(g)

\* The backend raised a timeout after two fragments; the invocation has ended.
C2_Witness ==
    \E g \in Gens :
        /\ Ended(g)
        /\ obs[g].stream = "raised"
        /\ obs[g].raised[1].type = "TimeoutError"
        /\ Len(obs[g].produced) = 2
        /\ Len(out[g]) = 3

\* C3: an invocation observes the request duration at most once, and exactly
\* once by the time it has ended, whatever its outcome.
C3_DurationObservedOnce ==
    /\ \A g \in Gens :
        /\ obs[g].calls["REQUEST_DURATION"] <= 1
        /\ Ended(g) => obs[g].calls["REQUEST_DURATION"] = 1
    /\ REQUEST_DURATION <= metrics["REQUEST_COUNTER"]
    /\ (\A g \in Gens : ~Live(g)) => REQUEST_DURATION = metrics["REQUEST_COUNTER"]

\* C4: every invocation that has ended observed the token count exactly once,
\* with the number of fragments it accumulated.
C4_TokenCountEveryOutcome ==
    \A g \in Gens :
        Ended(g) =>
            /\ obs[g].calls["TOKEN_COUNT"] = 1
            /\ obs[g].tokens = <<frame[g].token_count>>

\* C5: when the backend stream was exhausted, the value observed into the token
\* count summary is the number of fragments the stream produced.
C5_TokenCountIsFragments ==
    \A g \in Gens :
        obs[g].stream = "exhausted" =>
            /\ obs[g].tokens = <<Len(obs[g].produced)>>
            /\ obs[g].calls["TOKEN_COUNT"] = 1

C5_Witness ==
    /\ \E g \in Gens :
        /\ obs[g].stream = "exhausted" /\ given[g].use_local
        /\ Len(obs[g].produced) = 2 /\ obs[g].tokens = <<2>>
    /\ TOKEN_COUNT = [count |-> 2, sum |-> 2]

\* C6: from its first step on, an invocation has incremented exactly one of the
\* two usage counters, once: the local one iff use_local_model.
C6_OneUsageCounter ==
    /\ \A g \in Gens :
        Started(g) =>
            /\ obs[g].calls["LOCAL_MODEL_USAGE"] = (IF given[g].use_local THEN 1 ELSE 0)
            /\ obs[g].calls["API_MODEL_USAGE"] = (IF given[g].use_local THEN 0 ELSE 1)
    /\ metrics["LOCAL_MODEL_USAGE"] + metrics["API_MODEL_USAGE"] = metrics["REQUEST_COUNTER"]

C6_Witness ==
    \E g \in Gens :
        /\ frame[g].pc = "for" /\ obs[g].produced = <<>>
        /\ given[g].use_local
        /\ metrics["LOCAL_MODEL_USAGE"] = 1 /\ metrics["API_MODEL_USAGE"] = 1

\* The error-kind counter the taxonomy assigns to an error.
KindOf(e) ==
    IF e.type = "TimeoutError" THEN "TIMEOUT_ERRORS"
    ELSE IF Contains(e.text, API) THEN "API_ERRORS"
    ELSE "UNKNOWN_ERRORS"

ErrorKindCounters == {"TIMEOUT_ERRORS", "API_ERRORS", "UNKNOWN_ERRORS"}

\* C7: an invocation in which an exception was raised incremented the failed
\* counter once and exactly the error-kind counter of the taxonomy once (timeout
\* by type first, then "API" in the text, else unknown); an invocation without
\* exception incremented none of the four.
C7_ErrorKindCounted ==
    \A g \in Gens :
        IF Failed(g)
        THEN /\ obs[g].calls["FAILED_REQUESTS"] = 1
             /\ \A k \in ErrorKindCounters :
                    obs[g].calls[k] = (IF k = KindOf(obs[g].raised[1]) THEN 1 ELSE 0)
        ELSE /\ obs[g].calls["FAILED_REQUESTS"] = 0
             /\ \A k \in ErrorKindCounters : obs[g].calls[k] = 0

C7_Witness ==
    \E g \in Gens :
        /\ Failed(g)
        /\ obs[g].raised[1].type = "TimeoutError"
        /\ Contains(obs[g].raised[1].text, API)
        /\ metrics["TIMEOUT_ERRORS"] = 1 /\ metrics["UNKNOWN_ERRORS"] = 1

\* C8: an invocation incremented the successful-requests counter only if it
\* used the remote backend and its stream was exhausted without exception; a
\* local, failed or cancelled invocation never did.
C8_SuccessOnlyRemoteExhausted ==
    \A g \in Gens :
        /\ obs[g].calls["SUCCESSFUL_REQUESTS"] <= 1
        /\ obs[g].calls["SUCCESSFUL_REQUESTS"] = 1 =>
            /\ ~given[g].use_local
            /\ obs[g].stream = "exhausted"
            /\ ~Failed(g)
            /\ ~YieldedCancelled(g)

\* C9: an invocation yields "Inference cancelled." (with or without a suffix)
\* only if cancel_inference ran after that invocation reset the flag; a cancel
\* left over from an earlier invocation never cancels it.
C9_NoStaleCancel ==
    \A g \in Gens :
        /\ (\E i \in 1..Len(out[g]) : StartsWith(LastResponse(out[g][i]), CancelledText))
               => obs[g].cancelSeen
        /\ (\E i \in 1..Len(obs[g].reads) : obs[g].reads[i].flag) => obs[g].cancelSeen
        /\ (\E i \in 1..Len(obs[g].rechecks) : obs[g].rechecks[i]) => obs[g].cancelSeen
        /\ (Live(g) /\ ~obs[g].cancelSeen) => ~stop_inference

\* The second invocation ran to completion although the first was cancelled.
C9_Witness ==
    \E g \in Gens :
        /\ metrics["REQUEST_COUNTER"] = 2
        /\ metrics["FAILED_REQUESTS"] = 0
        /\ TOKEN_COUNT.count = 1
        /\ Ended(g) /\ obs[g].stream = "exhausted"
        /\ Len(obs[g].produced) = 2
        /\ Len(out[g]) = 2
        /\ ~obs[g].cancelSeen

\* C10: every value an invocation yields is the caller's history, in order,
\* followed by one Turn whose user message is the new message; the list the
\* caller passed is as it was.
C10_HistoryNotMutated ==
    \A g \in Gens :
        Started(g) =>
            /\ frame[g].history = Hist(g)
            /\ \A i \in 1..Len(out[g]) :
                /\ Len(out[g][i]) = Len(Hist(g)) + 1
                /\ SubSeq(out[g][i], 1, Len(Hist(g))) = Hist(g)
                /\ out[g][i][Len(out[g][i])][1] = given[g].message

C10_Witness ==
    \E g \in Gens :
        /\ Ended(g)
        /\ Len(Hist(g)) = 1
        /\ Len(out[g]) = 3
        /\ frame[g].history = given[g].history.turns

\* The user and assistant fields of the prior Turns, in conversation order.
TurnFields(h) ==
    [ i \in 1..(2 * Len(h)) |->
        IF i % 2 = 1 THEN Entry("user", h[(i + 1) \div 2][1])
                     ELSE Entry("assistant", h[i \div 2][2]) ]

HasContent(e) == e.content # <<>>

\* The role-tagged list the claim describes.
ExpectedMessages(system_message, h, message) ==
    <<Entry("system", system_message)>>
    \o SelectSeq(TurnFields(h), HasContent)
    \o <<Entry("user", message)>>

\* C11: the message list handed to the backend is the system entry, then per
\* prior Turn in order its non-empty user field and its non-empty assistant
\* field, then the new user message; both paths build the same list.
C11_MessageList ==
    \A g \in Gens :
        obs[g].stream # "none" =>
            LET want == ExpectedMessages(given[g].system_message, Hist(g), given[g].message)
            IN  /\ frame[g].messages = want
                /\ LocalMessages(given[g].system_message, Hist(g), given[g].message) = want
                /\ RemoteMessages(given[g].system_message, Hist(g), given[g].message) = want

C11_Witness ==
    \E g \in Gens :
        /\ frame[g].pc = "for"
        /\ given[g].use_local
        /\ Len(Hist(g)) = 2
        /\ frame[g].messages =
               << Entry("system", <<"s">>), Entry("assistant", <<"y","o">>),
                  Entry("user", <<"h","i">>), Entry("user", <<"m">>) >>

\* C12: when the stream delivered n fragments and was then exhausted, the
\* invocation yielded n+1 values: the k-th carries the concatenation of the
\* first k fragments, the last the whole concatenation and the diagnostic
\* suffix.
C12_PartialsThenAnnotated ==
    \A g \in Gens :
        obs[g].stream = "exhausted" =>
            LET n == Len(obs[g].produced)
            IN  /\ Len(out[g]) = n + 1
                /\ \A k \in 1..n :
                       LastResponse(out[g][k]) = Flatten(SubSeq(obs[g].produced, 1, k))
                /\ \E d \in Diagnostics :
                       LastResponse(out[g][n + 1]) =
                           Flatten(obs[g].produced) \o DiagnosticSuffix(d.elapsed, d.memory)

\* C13: every exception raised during an invocation is caught, counted and
\* turned into a yielded response, and the generator never ends by raising to
\* its caller.
C13_NoErrorPropagates ==
    \A g \in Gens :
        /\ Failed(g) =>
            /\ obs[g].calls["FAILED_REQUESTS"] = 1
            /\ \E i \in 1..Len(out[g]) :
                   LastResponse(out[g][i]) = ErrorResponse(obs[g].raised[1])
        /\ frame[g].pc # "raised"

\* The invocation was cancelled at its i-th fragment as the claim describes.
CancelledAt(g, i) ==
    /\ i = Len(obs[g].reads)
    /\ Len(obs[g].produced) = i
    /\ frame[g].token_count = i - 1
    /\ Len(out[g]) = i
    /\ out[g][i] = Hist(g) \o <<Turn(given[g].message, CancelledText)>>
    /\ \A k \in 1..(i - 1) :
           LastResponse(out[g][k]) = Flatten(SubSeq(obs[g].produced, 1, k))
    /\ frame[g].pc = "cancelled" \/ Ended(g)

\* C14: when the flag is true as the loop body runs for the i-th fragment (at
\* either of its tests of the flag, app.py:78/110 and 114), that fragment is
\* neither appended nor counted, the i-th and last value yielded is the history
\* with (message, "Inference cancelled."), no further fragment is requested and
\* no annotated value follows; a cancel that ran since the reset is seen by the
\* very next execution of the loop body.
C14_CancelAtAnyFragment ==
    \A g \in Gens :
        /\ \A i \in 1..Len(obs[g].reads) :
            /\ obs[g].reads[i].cancelSeen => obs[g].reads[i].flag
            /\ obs[g].reads[i].flag => CancelledAt(g, i)
        /\ \A i \in 1..Len(obs[g].rechecks) :
            obs[g].rechecks[i] => CancelledAt(g, i)

\* C15: when cancel_inference ran during an invocation but no execution of the
\* loop body saw it and the stream was then exhausted, the invocation is not
\* cancelled: it records the token count, on the remote path counts a success,
\* and yields the annotated value last; the flag is still true afterwards.
C15_LateCancelIgnored ==
    \A g \in Gens :
        (obs[g].cancelSeen /\ obs[g].stream = "exhausted") =>
            LET n == Len(obs[g].produced)
            IN  /\ \A i \in 1..Len(obs[g].reads) : ~obs[g].reads[i].flag
                /\ ~YieldedCancelled(g)
                /\ obs[g].tokens = <<n>>
                /\ obs[g].calls["SUCCESSFUL_REQUESTS"] = (IF given[g].use_local THEN 0 ELSE 1)
                /\ Len(out[g]) = n + 1
                /\ \E d \in Diagnostics :
                       out[g][n + 1] =
                           Hist(g) \o <<Turn(given[g].message,
                                Flatten(obs[g].produced) \o DiagnosticSuffix(d.elapsed, d.memory))>>
                /\ stop_inference

\* Whether string r is a non-empty kind name followed by " Error: " and text.
KindErrorForm(r, text) ==
    LET tail == <<" ">> \o ErrorPrefix \o text
    IN  /\ Len(r) > Len(tail)
        /\ SubSeq(r, Len(r) - Len(tail) + 1, Len(r)) = tail

\* C16: for each of the three error kinds the error response yielded reads
\* "<kind> Error: <message>", the kind being the one whose counter was
\* incremented ("Timeout" for a timeout) and the message the error's text.
C16_KindNamedInResponse ==
    \A g \in Gens :
        obs[g].stream = "raised" =>
            LET e == obs[g].raised[1]
                r == LastResponse(out[g][frame[g].token_count + 1])
            IN  /\ KindErrorForm(r, e.text)
                /\ KindOf(e) = "TIMEOUT_ERRORS" => r = TimeoutPrefix \o e.text

\* C17: an invocation whose caller keeps consuming it ends; it yields at most
\* one value per fragment and at most one closing value, runs the loop body
\* once per fragment delivered, and sees at most one error (nothing is retried).
C17_Terminates ==
    /\ [](\A g \in Gens :
            /\ Len(out[g]) <= Len(obs[g].produced) + 1
            /\ Len(obs[g].reads) <= Len(obs[g].produced)
            /\ Len(obs[g].rechecks) <= Len(obs[g].reads)
            /\ Len(obs[g].produced) <= Len(obs[g].reads) + 1
            /\ Len(obs[g].raised) <= 1)
    /\ \A g \in Gens : Live(g) ~> ~Live(g)

\* An invocation that yielded the most it can (two partial values and the
\* error value) has ended.
C17_Witness ==
    \E g \in Gens :
        /\ Ended(g)
        /\ Len(obs[g].produced) = 2
        /\ Failed(g)
        /\ Len(out[g]) = 3

\* C18: successful plus failed requests never exceed total requests, no
\* invocation counts both a success and a failure, and no counter or summary
\* count ever decreases.
C18_CountersConsistent ==
    /\ [](/\ metrics["SUCCESSFUL_REQUESTS"] + metrics["FAILED_REQUESTS"]
                <= metrics["REQUEST_COUNTER"]
          /\ \A g \in Gens :
                obs[g].calls["SUCCESSFUL_REQUESTS"] + obs[g].calls["FAILED_REQUESTS"] <= 1)
    /\ [][/\ \A n \in CounterNames : metrics'[n] >= metrics[n]
          /\ TOKEN_COUNT'.count >= TOKEN_COUNT.count
          /\ REQUEST_DURATION' >= REQUEST_DURATION]_vars

\* One request succeeded and one failed.
C18_Witness ==
    /\ metrics["REQUEST_COUNTER"] = 2
    /\ metrics["SUCCESSFUL_REQUESTS"] = 1
    /\ metrics["FAILED_REQUESTS"] = 1
    /\ \A g \in Gens : ~Live(g)

\* C19: the flag is one variable for all invocations.  The start of any
\* invocation clears it, whatever other invocation is in its loop, and nothing
\* else clears it; while it is true, every invocation that runs its loop body
\* is cancelled there.
C19_SharedFlag ==
    [][/\ metrics'["REQUEST_COUNTER"] # metrics["REQUEST_COUNTER"] => ~stop_inference'
       /\ (stop_inference /\ ~stop_inference') =>
              metrics'["REQUEST_COUNTER"] = metrics["REQUEST_COUNTER"] + 1
       /\ \A g \in Gens :
              (frame[g].pc = "body" /\ stop_inference /\ frame'[g] # frame[g]) =>
                  /\ frame'[g].pc = "cancelled"
                  /\ out'[g] = Append(out[g],
                         Hist(g) \o <<Turn(given[g].message, CancelledText)>>)]_vars

\* cancel_inference ran during an invocation, another invocation's start
\* cleared the flag before the first one looked, and the first one went on to
\* append a fragment and completed without "Inference cancelled.".
C19_Witness ==
    \E g \in Gens :
        /\ Ended(g)
        /\ obs[g].stream = "exhausted"
        /\ \E i \in 1..Len(obs[g].reads) :
               obs[g].reads[i].cancelSeen /\ ~obs[g].reads[i].flag
        /\ Len(out[g]) = Len(obs[g].produced)
        /\ ~YieldedCancelled(g)

\* One cancel_inference cancelled both invocations in progress.
BothCancelled ==
    \A g \in Gens : frame[g].pc = "cancelled" /\ obs[g].reads # <<>>

====
